---- MODULE Spec2Model ----
(***************************************************************************)
(* cal.ai: the knowledge store (retrieval.py), the per-user nutrition      *)
(* ledger and the calorie-target tracker (telegram_calorie_bot.py).        *)
(*                                                                         *)
(* Text is a sequence of one-character strings.  A file is a record        *)
(* [exists, lines] (knowledge base, ledger) or [exists, map] (targets).    *)
(* A JSON value is a record [t, n, s] with t one of "absent", "null",      *)
(* "num", "str".                                                           *)
(***************************************************************************)
EXTENDS Integers, Sequences, FiniteSets, TLC

\* ------------------------------------------------------------------ bounds
\* add_kb_entry is explored while the id it assigns is at most MaxId
MaxId == 3
\* message_handler is explored while the ledgers together hold at most MaxLines lines
MaxLines == 3
\* the interleaved knowledge-store specification starts at most MaxOps operations
MaxOps == 3

\* ------------------------------------------------------------------ text
LowerLetters ==
  <<"a","b","c","d","e","f","g","h","i","j","k","l","m",
    "n","o","p","q","r","s","t","u","v","w","x","y","z">>

UpperLetters ==
  <<"A","B","C","D","E","F","G","H","I","J","K","L","M",
    "N","O","P","Q","R","S","T","U","V","W","X","Y","Z">>

Digits == {"0","1","2","3","4","5","6","7","8","9"}

Range(f) == {f[i] : i \in DOMAIN f}

\* \s of the regular expressions and the characters str.strip() removes
IsSpace(c) == c \in {" ", "\t", "\n", "\r"}

\* one character of str.lower()
LowerChar(c) ==
  IF c \in Range(UpperLetters)
  THEN LowerLetters[CHOOSE i \in DOMAIN UpperLetters : UpperLetters[i] = c]
  ELSE c

\* a character the class [^a-z0-9\s] matches
IsSymbol(c) == ~(c \in Range(LowerLetters) \/ c \in Digits \/ IsSpace(c))

RECURSIVE LStrip(_)
LStrip(s) ==
  IF s = <<>> THEN s
  ELSE IF IsSpace(Head(s)) THEN LStrip(Tail(s)) ELSE s

RECURSIVE RStrip(_)
RStrip(s) ==
  IF s = <<>> THEN s
  ELSE IF IsSpace(s[Len(s)]) THEN RStrip(SubSeq(s, 1, Len(s) - 1)) ELSE s

\* str.strip()
Strip(s) == RStrip(LStrip(s))

\* str.lower()
Lower(s) == [i \in 1..Len(s) |-> LowerChar(s[i])]

RECURSIVE SkipSymbols(_)
SkipSymbols(s) ==
  IF s = <<>> THEN s
  ELSE IF IsSymbol(Head(s)) THEN SkipSymbols(Tail(s)) ELSE s

\* re.sub(r"[^a-z0-9\s]+", " ", s)
RECURSIVE SubSymbols(_)
SubSymbols(s) ==
  IF s = <<>> THEN <<>>
  ELSE IF IsSymbol(Head(s)) THEN <<" ">> \o SubSymbols(SkipSymbols(s))
  ELSE <<Head(s)>> \o SubSymbols(Tail(s))

\* re.sub(r"\s+", " ", s)
RECURSIVE SubSpaces(_)
SubSpaces(s) ==
  IF s = <<>> THEN <<>>
  ELSE IF IsSpace(Head(s)) THEN <<" ">> \o SubSpaces(LStrip(s))
  ELSE <<Head(s)>> \o SubSpaces(Tail(s))

normalize_text(s) == Strip(SubSpaces(SubSymbols(Lower(s))))

\* text.split(",")[0]
RECURSIVE BeforeComma(_)
BeforeComma(s) ==
  IF s = <<>> THEN <<>>
  ELSE IF Head(s) = "," THEN <<>>
  ELSE <<Head(s)>> \o BeforeComma(Tail(s))

\* ------------------------------------------------------------------ inputs
\* note texts handed to add_kb_entry: " Egg, 80 ", "egg", "rice "
NoteTexts ==
  { <<" ","E","g","g",","," ","8","0"," ">>,
    <<"e","g","g">>,
    <<"r","i","c","e"," ">> }

\* queries handed to retrieve_kb_context: "egg", "!"
Queries == { <<"e","g","g">>, <<"!">> }

\* ids handed to delete_kb_entry
DeleteIds == 0..MaxId

\* the tasks of the interleaved specification, and what they hand to the store
Tasks == {"t1", "t2"}

TaskTexts == { <<"e","g","g">>, <<"r","i","c","e"," ">> }

TaskIds == {1, 2}

TaskQueries == { <<"e","g","g">> }

\* the defaults of retrieve_kb_context
DefaultTopK == 3

DefaultMinScore == 35

\* note texts of the ranking specification: "apples", "rice apples",
\* "Rice and Apples!, 150"
RankTexts ==
  { <<"a","p","p","l","e","s">>,
    <<"r","i","c","e"," ","a","p","p","l","e","s">>,
    <<"R","i","c","e"," ","a","n","d"," ","A","p","p","l","e","s","!",",",
      " ","1","5","0">> }

\* queries of the ranking specification: "apple", "Apples", "rice and apples", "?"
RankQueries ==
  { <<"a","p","p","l","e">>,
    <<"A","p","p","l","e","s">>,
    <<"r","i","c","e"," ","a","n","d"," ","a","p","p","l","e","s">>,
    <<"?">> }

\* note texts of the context specification: "egg", "rice\nx", "tea\nx" (a note sent
\* as a message of two lines)
ContextTexts ==
  { <<"e","g","g">>,
    <<"r","i","c","e","\n","x">>,
    <<"t","e","a","\n","x">> }

\* messages of the context specification: "rice and tea", "egg, egg", "AND ,", "tea"
ContextMessages ==
  { <<"r","i","c","e"," ","a","n","d"," ","t","e","a">>,
    <<"e","g","g",","," ","e","g","g">>,
    <<"A","N","D"," ",",">>,
    <<"t","e","a">> }

\* values of top_k and of min_score handed to retrieve_kb_context
TopKs == {1, DefaultTopK}

MinScores == {DefaultMinScore, 111}

\* ------------------------------------------------------------------ JSON values
JAbsent == [t |-> "absent", n |-> 0, s |-> ""]

JNull == [t |-> "null", n |-> 0, s |-> ""]

JNum(n) == [t |-> "num", n |-> n, s |-> ""]

JStr(s) == [t |-> "str", n |-> 0, s |-> s]

\* the users, and the one day date.today() names during a run
Users == {"u1", "u2"}

Today == "d1"

Dates == {Today}

\* food-item records as the LLM collaborator returns them
Food(item, quantity, unit, total_kcal, kcal, protein, carbs, fat) ==
  [item |-> item, quantity |-> quantity, unit |-> unit, total_kcal |-> total_kcal,
   kcal |-> kcal, protein |-> protein, carbs |-> carbs, fat |-> fat]

Egg == Food(JStr("egg"), JNum(2), JStr("piece"), JNum(160), JAbsent,
            JNum(12), JNum(1), JNum(10))

Rice == Food(JStr("rice"), JNum(1), JStr("cup"), JAbsent, JNum(200),
             JNull, JNum(45), JAbsent)

Greeting(word) == Food(JStr(word), JAbsent, JAbsent, JNum(5), JAbsent,
                       JNum(1), JNum(1), JNum(1))

EmptyItem == Food(JStr(""), JNum(1), JAbsent, JNum(7), JAbsent, JAbsent, JAbsent, JAbsent)

NoItem == Food(JAbsent, JNum(1), JAbsent, JNum(9), JAbsent, JAbsent, JAbsent, JAbsent)

NullItem == Food(JNull, JAbsent, JAbsent, JAbsent, JNum(3), JAbsent, JAbsent, JAbsent)

\* what normalize_food_text returns for one message
Batches ==
  { <<>>,
    <<Greeting("hi")>>,
    <<Greeting("hello"), Greeting("hey")>>,
    <<EmptyItem, NoItem, NullItem>>,
    <<Egg>>,
    <<Rice>>,
    <<Rice, Egg>>,
    <<Greeting("hi"), Egg, Greeting("hey"), Rice>> }

\* a record whose protein is the text "n/a"
Tea == Food(JStr("tea"), JNum(1), JStr("cup"), JNum(2), JAbsent,
            JStr("n/a"), JNum(3), JNum(4))

\* replies of the collaborator with a field that is no number
LooseBatches == { <<Tea>>, <<Egg>>, <<Tea, Egg>> }

\* the user whose scope the interleaved runs share
TaskUsers == {"u1"}

\* the message text of the interleaved runs: ","
TaskMessages == { <<",">> }

\* replies of the collaborator in the interleaved runs
TaskBatches == { <<Egg>>, <<Rice>> }

\* a line json.loads rejects; it holds no record, the obj field is a blank
MalformedLine ==
  [parses |-> FALSE,
   obj |-> Food(JAbsent, JAbsent, JAbsent, JAbsent, JAbsent, JAbsent, JAbsent, JAbsent)]

\* day files as aggregate_today and delete_user_entry_by_id may find them: up to
\* MaxLines lines, each the line of a record or a malformed line
LedgerFiles ==
  UNION { [1..n -> {[parses |-> TRUE, obj |-> Egg], [parses |-> TRUE, obj |-> Rice],
                    MalformedLine}] : n \in 0..MaxLines }

\* what the collaborator had produced when its call raised
LostBatches == { <<>>, <<Egg>> }

\* message texts: "egg and rice", ","
Messages ==
  { <<"e","g","g"," ","a","n","d"," ","r","i","c","e">>,
    <<",">> }

\* target values handed to set_user_target
TargetValues == {1500, 1800, 2000, 2200, 2500}

\* context.args of /settarget: none, "2000", "1800.0", "0", "0.0", "1.2.3", ".", "abc",
\* "-5", and "2200 x".  A number with a fraction other than zero is not among them:
\* targets are modelled as integers.
CmdArgs ==
  { <<>>,
    << <<"2","0","0","0">> >>,
    << <<"1","8","0","0",".","0">> >>,
    << <<"0">> >>,
    << <<"0",".","0">> >>,
    << <<"1",".","2",".","3">> >>,
    << <<".">> >>,
    << <<"a","b","c">> >>,
    << <<"-","5">> >>,
    << <<"2","2","0","0">>, <<"x">> >> }

\* positions handed to delete_user_entry_by_id
Positions == (0 - 1)..(MaxLines + 1)

VARIABLES
  kbFile,     \* knowledge_base.jsonl: [exists, lines], a line is an entry {id, text}
  kbCache,    \* the lru_cache of load_kb_entries_cached: [valid, entries]
  issued,     \* history: the ids add_kb_entry has returned so far
  task,       \* interleaved runs: each task's position in the call it is making
  started,    \* interleaved runs: the number of calls started
  committed,  \* history: an add_kb_entry or delete_kb_entry has reported success
  ledger,     \* users_data/user_<id>/<date>.jsonl: [exists, lines] per user and date
  userDirs,   \* the users whose directory users_data/user_<id> exists
  appended,   \* history per scope: the records appended since the scope was last empty
  targets,    \* user_targets.json: [exists, map], map a function from user ids to numbers
  lastSet,    \* history per user: the value of the latest set_user_target, as a set
  last        \* the operation completed last: its arguments and what it returned

kbVars == <<kbFile, kbCache, issued>>

taskVars == <<task, started, committed>>

ledgerVars == <<ledger, userDirs, appended>>

targetVars == <<targets, lastSet>>

vars ==
  <<kbFile, kbCache, issued, task, started, committed, ledger, userDirs, appended,
    targets, lastSet, last>>

\* ------------------------------------------------------------------ knowledge store
NoLast ==
  [op |-> "none", user |-> "", text |-> <<>>, num |-> 0, ok |-> FALSE,
   ret |-> 0, entries |-> <<>>, items |-> <<>>, top_k |-> 0, min_score |-> 0,
   selected |-> <<>>, ctx |-> [some |-> FALSE, text |-> <<>>], args |-> <<>>,
   hit |-> FALSE]

NoCache == [valid |-> FALSE, entries |-> <<>>]

\* a plausible slip: the mutations starting from the cached list when there is one
load_kb_entries_from_cache ==
  IF kbCache.valid THEN kbCache.entries
  ELSE IF ~kbFile.exists THEN <<>> ELSE kbFile.lines

\* load_kb_entries: the lines of the file, none when there is no file
load_kb_entries == IF ~kbFile.exists THEN <<>> ELSE kbFile.lines

save_kb_entries(entries) == [exists |-> TRUE, lines |-> entries]

MaxOf(S) == CHOOSE m \in S : \A x \in S : x <= m

\* a plausible slip: the next id taken from the number of entries
next_id_by_count(entries) == Len(entries) + 1

\* max((entry.get("id", 0) for entry in entries), default=0) + 1
next_id(entries) == MaxOf({entries[i].id : i \in DOMAIN entries} \cup {0}) + 1

\* a plausible slip: the id taken for a 1-based position in the list
without_position(entries, entry_id) ==
  IF entry_id \in DOMAIN entries
  THEN SubSeq(entries, 1, entry_id - 1) \o SubSeq(entries, entry_id + 1, Len(entries))
  ELSE entries

\* [entry for entry in entries if entry.get("id") != entry_id]
without_id(entries, entry_id) ==
  LET Keep(e) == e.id # entry_id IN SelectSeq(entries, Keep)

\* list(reversed(entries))
Reversed(entries) == [i \in DOMAIN entries |-> entries[Len(entries) + 1 - i]]

\* a plausible slip: the cached list reordered in place while it is indexed
build_kb_index_reordering(entries) ==
  Reversed([i \in DOMAIN entries |->
     LET name == Strip(BeforeComma(entries[i].text))
     IN  [id |-> entries[i].id, text |-> entries[i].text,
          name |-> name, name_norm |-> normalize_text(name)]])

\* build_kb_index: every entry gains name and name_norm
build_kb_index(entries) ==
  [i \in DOMAIN entries |->
     LET name == Strip(BeforeComma(entries[i].text))
     IN  [id |-> entries[i].id, text |-> entries[i].text,
          name |-> name, name_norm |-> normalize_text(name)]]

\* the {id, text} part of a list of entries
Stored(entries) ==
  [i \in DOMAIN entries |-> [id |-> entries[i].id, text |-> entries[i].text]]

\* ------------------------------------------------------------------ ranker
min(a, b) == IF a <= b THEN a ELSE b

max(a, b) == IF a >= b THEN a ELSE b

\* str.split(): the words of s; cur is the word that is open
RECURSIVE SplitWords(_, _)
SplitWords(s, cur) ==
  LET closed == IF cur = <<>> THEN <<>> ELSE <<cur>>
  IN  IF s = <<>> THEN closed
      ELSE IF IsSpace(Head(s)) THEN closed \o SplitWords(Tail(s), <<>>)
      ELSE SplitWords(Tail(s), Append(cur, Head(s)))

Words(s) == SplitWords(s, <<>>)

DigitChars == <<"0","1","2","3","4","5","6","7","8","9">>

\* the characters of a normalized word in code-point order
Alphabet == DigitChars \o LowerLetters

CharCode(c) == CHOOSE i \in DOMAIN Alphabet : Alphabet[i] = c

\* a < b on two words, as sorted() compares strings
RECURSIVE LessText(_, _)
LessText(a, b) ==
  IF b = <<>> THEN FALSE
  ELSE IF a = <<>> THEN TRUE
  ELSE IF Head(a) = Head(b) THEN LessText(Tail(a), Tail(b))
  ELSE CharCode(Head(a)) < CharCode(Head(b))

\* sorted(S) of a set of words
RECURSIVE SortedWords(_)
SortedWords(S) ==
  IF S = {} THEN <<>>
  ELSE LET m == CHOOSE x \in S : \A y \in S : x = y \/ LessText(x, y)
       IN  <<m>> \o SortedWords(S \ {m})

\* " ".join(words)
RECURSIVE JoinWords(_)
JoinWords(words) ==
  IF words = <<>> THEN <<>>
  ELSE IF Len(words) = 1 THEN words[1]
  ELSE words[1] \o <<" ">> \o JoinWords(Tail(words))

\* one row of the longest-common-subsequence table: the row of character c of a from
\* the row above it (prev); row holds the columns filled so far
RECURSIVE LcsRow(_, _, _, _)
LcsRow(c, b, prev, row) ==
  IF Len(row) = Len(b) + 1 THEN row
  ELSE LET j == Len(row)
       IN  LcsRow(c, b, prev,
                  Append(row, IF c = b[j] THEN prev[j] + 1
                              ELSE max(prev[j + 1], row[j])))

\* the table of longest-common-subsequence lengths of a and b, row by row
RECURSIVE LcsTable(_, _, _)
LcsTable(a, b, table) ==
  IF Len(table) = Len(a) + 1 THEN table
  ELSE LET i == Len(table)
       IN  LcsTable(a, b, Append(table, LcsRow(a[i], b, table[i], <<0>>)))

\* the length of a longest common subsequence of a and b
lcs_length(a, b) ==
  LcsTable(a, b, <<[j \in 1..(Len(b) + 1) |-> 0]>>)[Len(a) + 1][Len(b) + 1]

\* rapidfuzz Indel distance: insertions and deletions that turn a into b
indel_distance(a, b) == Len(a) + Len(b) - 2 * lcs_length(a, b)

\* the integer part of 100 - 100 * dist / lensum
norm_distance(dist, lensum) ==
  IF lensum = 0 THEN 100 ELSE (100 * (lensum - dist)) \div lensum

\* the integer part of rapidfuzz's fuzz.token_set_ratio(s1, s2)
token_set_ratio(s1, s2) ==
  LET tokens_a == Range(Words(s1))
      tokens_b == Range(Words(s2))
      intersect == tokens_a \cap tokens_b
      diff_ab  == JoinWords(SortedWords(tokens_a \ tokens_b))
      diff_ba  == JoinWords(SortedWords(tokens_b \ tokens_a))
      sect_len == Len(JoinWords(SortedWords(intersect)))
      gap      == IF sect_len # 0 THEN 1 ELSE 0
      sect_ab_len == sect_len + gap + Len(diff_ab)
      sect_ba_len == sect_len + gap + Len(diff_ba)
      result   == norm_distance(indel_distance(diff_ab, diff_ba),
                                sect_ab_len + sect_ba_len)
      sect_ab_ratio == norm_distance(gap + Len(diff_ab), sect_len + sect_ab_len)
      sect_ba_ratio == norm_distance(gap + Len(diff_ba), sect_len + sect_ba_len)
  IN  IF tokens_a = {} \/ tokens_b = {} THEN 0
      ELSE IF intersect # {} /\ (diff_ab = <<>> \/ diff_ba = <<>>) THEN 100
      ELSE IF sect_len = 0 THEN result
      ELSE max(result, max(sect_ab_ratio, sect_ba_ratio))

\* len(q_tokens & e_tokens)
overlap(query_norm, name_norm) ==
  Cardinality(Range(Words(query_norm)) \cap Range(Words(name_norm)))

\* a plausible slip: max written for min
bonus_max(n) == max(n * 5, 15)

\* min(overlap * 5, 15)
bonus(n) == min(n * 5, 15)

\* int(score_fuzzy + bonus)
score(query_norm, name_norm) ==
  token_set_ratio(query_norm, name_norm) + bonus(overlap(query_norm, name_norm))

\* scores: a pair (score, entry) for every entry with a non-empty name_norm
RECURSIVE ScoresOf(_, _)
ScoresOf(entries, query_norm) ==
  IF entries = <<>> THEN <<>>
  ELSE IF Head(entries).name_norm = <<>> THEN ScoresOf(Tail(entries), query_norm)
  ELSE <<[score |-> score(query_norm, Head(entries).name_norm), entry |-> Head(entries)]>>
         \o ScoresOf(Tail(entries), query_norm)

\* a plausible slip: the length of the name left out of the sort key
sort_key_score_only(t) == <<t.score, 0>>

\* key=lambda t: (t[0], len(t[1].get("name", "")))
sort_key(t) == <<t.score, Len(t.entry.name)>>

\* k1 < k2 on two keys, as Python compares tuples
KeyLess(k1, k2) == k1[1] < k2[1] \/ (k1[1] = k2[1] /\ k1[2] < k2[2])

\* t put into a list sorted with reverse=True: behind the items whose key is not smaller
RECURSIVE InsertDesc(_, _)
InsertDesc(sorted, t) ==
  IF sorted = <<>> THEN <<t>>
  ELSE IF KeyLess(sort_key(Head(sorted)), sort_key(t)) THEN <<t>> \o sorted
  ELSE <<Head(sorted)>> \o InsertDesc(Tail(sorted), t)

\* scores.sort(key=..., reverse=True): stable, items with equal keys keep their order
RECURSIVE SortDesc(_, _)
SortDesc(items, sorted) ==
  IF items = <<>> THEN sorted
  ELSE SortDesc(Tail(items), InsertDesc(sorted, Head(items)))

\* the scores 0..115 whose product with the double 0.7 (a little below 7/10) rounds
\* to a double below the integer 7 * score / 10
RoundsBelow == {90}

\* int(best_score * 0.7)
int_of_product(best_score) ==
  IF best_score \in RoundsBelow THEN (7 * best_score) \div 10 - 1
  ELSE (7 * best_score) \div 10

\* max(min_score, int(best_score * 0.7))
dynamic_cutoff(min_score, best_score) == max(min_score, int_of_product(best_score))

\* seq[:k] for k >= 0
Take(seq, k) == SubSeq(seq, 1, min(k, Len(seq)))

\* str(n) of a natural number
RECURSIVE IntText(_)
IntText(n) ==
  IF n < 10 THEN <<DigitChars[n + 1]>>
  ELSE IntText(n \div 10) \o <<DigitChars[(n % 10) + 1]>>

\* f"- Note #{entry['id']}: {entry.get('text', '')}"
NoteLine(entry) ==
  <<"-"," ","N","o","t","e"," ","#">> \o IntText(entry.id) \o <<":"," ">> \o entry.text

\* "\n".join(lines)
RECURSIVE JoinLines(_)
JoinLines(lines) ==
  IF lines = <<>> THEN <<>>
  ELSE IF Len(lines) = 1 THEN lines[1]
  ELSE lines[1] \o <<"\n">> \o JoinLines(Tail(lines))

\* an Optional[str]: None, or a string
None == [some |-> FALSE, text |-> <<>>]

Some(text) == [some |-> TRUE, text |-> text]

\* what retrieve_kb_context yields when it returns None
NoRanking == [selected |-> <<>>, ctx |-> None]

\* [t for t in scores if t[0] >= dynamic_cutoff]
RECURSIVE filtered(_, _)
filtered(scores, cutoff) ==
  IF scores = <<>> THEN <<>>
  ELSE IF Head(scores).score >= cutoff
       THEN <<Head(scores)>> \o filtered(Tail(scores), cutoff)
       ELSE filtered(Tail(scores), cutoff)

\* the collapse: a query of at most 2 words whose two best scores are the same and at
\* least 90 keeps only the first selected entry
collapse(selected, scores, words) ==
  IF /\ Len(selected) > 1
     /\ Len(words) <= 2
     /\ scores[1].score >= 90
     /\ (IF Len(scores) > 1 THEN scores[2].score ELSE 0) = scores[1].score
  THEN <<selected[1]>> ELSE selected

\* the context string: one note line per entry, joined by newlines
render(selected) == Some(JoinLines([i \in DOMAIN selected |-> NoteLine(selected[i].entry)]))

\* from selected_entries on: None when it is empty, else the collapse and the string
Selected(selected, scores, words) ==
  IF selected = <<>> THEN NoRanking
  ELSE [selected |-> [i \in DOMAIN selected |->
                        [id |-> selected[i].entry.id, text |-> selected[i].entry.text]],
        ctx |-> render(collapse(selected, scores, words))]

\* from the sorted scores on: None when there are none, else the cutoff, the filter
\* and the truncation to top_k
Scored(scores, words, top_k, min_score) ==
  IF scores = <<>> THEN NoRanking
  ELSE Selected(Take(filtered(scores, dynamic_cutoff(min_score, scores[1].score)), top_k),
                scores, words)

\* retrieve_kb_context from the entry list on: selected is selected_entries as it is
\* before the collapse, ctx what the function returns
Rank(entries, query, top_k, min_score) ==
  IF entries = <<>> \/ normalize_text(query) = <<>> THEN NoRanking
  ELSE Scored(SortDesc(ScoresOf(build_kb_index(entries), normalize_text(query)), <<>>),
              Words(normalize_text(query)), top_k, min_score)

\* a plausible slip: the cache left as it is
cache_kept == kbCache

\* load_kb_entries_cached.cache_clear()
cache_clear == NoCache

AddKbEntry(text) ==
  LET entries == load_kb_entries
      nid     == next_id(entries)
  IN  /\ nid <= MaxId
      /\ kbCache' = cache_clear
      /\ kbFile' = save_kb_entries(Append(entries, [id |-> nid, text |-> Strip(text)]))
      /\ issued' = issued \cup {nid}
      /\ last' = [NoLast EXCEPT !.op = "add_kb_entry", !.text = text, !.ret = nid]
      /\ UNCHANGED <<taskVars, ledgerVars, targetVars>>

DeleteKbEntry(entry_id) ==
  LET entries     == load_kb_entries
      new_entries == without_id(entries, entry_id)
      found       == Len(new_entries) # Len(entries)
  IN  /\ kbCache' = cache_clear
      /\ kbFile' = IF found THEN save_kb_entries(new_entries) ELSE kbFile
      /\ UNCHANGED issued
      /\ last' = [NoLast EXCEPT !.op = "delete_kb_entry", !.num = entry_id, !.ok = found]
      /\ UNCHANGED <<taskVars, ledgerVars, targetVars>>

\* an observation with what the ranking selected and returned
WithRanking(obs, ranked) == [obs EXCEPT !.selected = ranked.selected, !.ctx = ranked.ctx]

\* what a retrieve_kb_context call of task t did: its arguments, the list it ranked,
\* whether the list came from the cache, and what it selected and returned
Retrieved(t, entries, query, top_k, min_score, hit) ==
  WithRanking([NoLast EXCEPT !.op = "retrieve_kb_context", !.user = t, !.text = query,
                             !.top_k = top_k, !.min_score = min_score, !.hit = hit,
                             !.entries = Stored(entries)],
              Rank(entries, query, top_k, min_score))

\* load_kb_entries_cached, then build_kb_index on the cached list when it is not empty
RetrieveKbContext(query, top_k, min_score) ==
  LET entries == IF kbCache.valid THEN kbCache.entries ELSE load_kb_entries
  IN  /\ kbCache' = [valid |-> TRUE, entries |-> build_kb_index(entries)]
      /\ UNCHANGED <<kbFile, issued>>
      /\ last' = Retrieved("", entries, query, top_k, min_score, kbCache.valid)
      /\ UNCHANGED <<taskVars, ledgerVars, targetVars>>

\* ------------------------------------------------------------------ knowledge store, interleaved
\* The same three functions run by tasks that are suspended before each read and
\* each write of knowledge_base.jsonl; what lies between two such points is one step.
Idle ==
  [pc |-> "idle", op |-> "none", user |-> "", text |-> <<>>, num |-> 0, entries |-> <<>>]

\* add_kb_entry up to its read of the file: load_kb_entries_cached.cache_clear()
AddClear(t, text) ==
  /\ task[t].pc = "idle"
  /\ started < MaxOps
  /\ started' = started + 1
  /\ kbCache' = cache_clear
  /\ task' = [task EXCEPT ![t] = [Idle EXCEPT !.pc = "read", !.op = "add_kb_entry",
                                               !.text = text]]
  /\ UNCHANGED <<kbFile, issued, committed, last, ledgerVars, targetVars>>

\* entries = load_kb_entries()
AddLoad(t) ==
  /\ task[t].pc = "read"
  /\ task[t].op = "add_kb_entry"
  /\ task' = [task EXCEPT ![t].pc = "write", ![t].entries = load_kb_entries]
  /\ UNCHANGED <<kbVars, started, committed, last, ledgerVars, targetVars>>

\* next_id, append, save_kb_entries(entries), return next_id
AddSave(t) ==
  LET entries == task[t].entries
      nid     == next_id(entries)
  IN  /\ task[t].pc = "write"
      /\ task[t].op = "add_kb_entry"
      /\ kbFile' = save_kb_entries(
                     Append(entries, [id |-> nid, text |-> Strip(task[t].text)]))
      /\ issued' = issued \cup {nid}
      /\ committed' = TRUE
      /\ task' = [task EXCEPT ![t] = Idle]
      /\ last' = [NoLast EXCEPT !.op = "add_kb_entry", !.user = t,
                                !.text = task[t].text, !.ret = nid]
      /\ UNCHANGED <<kbCache, started, ledgerVars, targetVars>>

\* delete_kb_entry up to its read of the file: load_kb_entries_cached.cache_clear()
DeleteClear(t, entry_id) ==
  /\ task[t].pc = "idle"
  /\ started < MaxOps
  /\ started' = started + 1
  /\ kbCache' = cache_clear
  /\ task' = [task EXCEPT ![t] = [Idle EXCEPT !.pc = "read", !.op = "delete_kb_entry",
                                               !.num = entry_id]]
  /\ UNCHANGED <<kbFile, issued, committed, last, ledgerVars, targetVars>>

\* entries = load_kb_entries(), the filter, and return False when nothing was removed
DeleteLoad(t) ==
  LET entries     == load_kb_entries
      new_entries == without_id(entries, task[t].num)
  IN  /\ task[t].pc = "read"
      /\ task[t].op = "delete_kb_entry"
      /\ IF Len(new_entries) = Len(entries)
         THEN /\ task' = [task EXCEPT ![t] = Idle]
              /\ last' = [NoLast EXCEPT !.op = "delete_kb_entry", !.user = t,
                                        !.num = task[t].num, !.ok = FALSE]
         ELSE /\ task' = [task EXCEPT ![t].pc = "write", ![t].entries = new_entries]
              /\ UNCHANGED last
      /\ UNCHANGED <<kbVars, started, committed, ledgerVars, targetVars>>

\* save_kb_entries(new_entries), return True
DeleteSave(t) ==
  /\ task[t].pc = "write"
  /\ task[t].op = "delete_kb_entry"
  /\ kbFile' = save_kb_entries(task[t].entries)
  /\ committed' = TRUE
  /\ task' = [task EXCEPT ![t] = Idle]
  /\ last' = [NoLast EXCEPT !.op = "delete_kb_entry", !.user = t,
                            !.num = task[t].num, !.ok = TRUE]
  /\ UNCHANGED <<kbCache, issued, started, ledgerVars, targetVars>>

\* retrieve_kb_context: a cache hit ranks at once, a miss goes on to read the file
RetrieveCall(t, query) ==
  /\ task[t].pc = "idle"
  /\ started < MaxOps
  /\ started' = started + 1
  /\ IF kbCache.valid
     THEN /\ kbCache' = [kbCache EXCEPT !.entries = build_kb_index(kbCache.entries)]
          /\ last' = Retrieved(t, kbCache.entries, query, DefaultTopK, DefaultMinScore,
                             TRUE)
          /\ UNCHANGED task
     ELSE /\ task' = [task EXCEPT ![t] = [Idle EXCEPT !.pc = "read",
                                                      !.op = "retrieve_kb_context",
                                                      !.text = query]]
          /\ UNCHANGED <<kbCache, last>>
  /\ UNCHANGED <<kbFile, issued, committed, ledgerVars, targetVars>>

\* the miss: load_kb_entries() fills the cache, build_kb_index, the ranking
RetrieveLoad(t) ==
  /\ task[t].pc = "read"
  /\ task[t].op = "retrieve_kb_context"
  /\ kbCache' = [valid |-> TRUE, entries |-> build_kb_index(load_kb_entries)]
  /\ task' = [task EXCEPT ![t] = Idle]
  /\ last' = Retrieved(t, load_kb_entries, task[t].text, DefaultTopK, DefaultMinScore,
                     FALSE)
  /\ UNCHANGED <<kbFile, issued, started, committed, ledgerVars, targetVars>>

\* ------------------------------------------------------------------ context assembler
IsWordChar(c) ==
  c \in Range(LowerLetters) \/ c \in Range(UpperLetters) \/ c \in Digits \/ c = "_"

\* \band\b with re.IGNORECASE matches at position i of s
AndAt(s, i) ==
  /\ i + 2 <= Len(s)
  /\ Lower(SubSeq(s, i, i + 2)) = <<"a","n","d">>
  /\ i = 1 \/ ~IsWordChar(s[i - 1])
  /\ i + 3 > Len(s) \/ ~IsWordChar(s[i + 3])

\* re.split(r"\band\b|,", text, flags=re.IGNORECASE), from position i with part cur open
RECURSIVE SplitFrom(_, _, _)
SplitFrom(s, i, cur) ==
  IF i > Len(s) THEN <<cur>>
  ELSE IF AndAt(s, i) THEN <<cur>> \o SplitFrom(s, i + 3, <<>>)
  ELSE IF s[i] = "," THEN <<cur>> \o SplitFrom(s, i + 1, <<>>)
  ELSE SplitFrom(s, i + 1, Append(cur, s[i]))

\* the parts build_kb_context_for_message hands to retrieve_kb_context
Chunks(text) ==
  LET NonEmpty(part) == part # <<>>
      parts == SplitFrom(text, 1, <<>>)
  IN  SelectSeq([i \in DOMAIN parts |-> Strip(parts[i])], NonEmpty)

\* the cache after build_kb_context_for_message: every chunk calls retrieve_kb_context
CacheAfterContext(text) ==
  IF Chunks(text) = <<>> THEN kbCache
  ELSE [valid |-> TRUE,
        entries |-> build_kb_index(IF kbCache.valid THEN kbCache.entries
                                   ELSE load_kb_entries)]

\* a character at which str.splitlines breaks a string
IsLineBreak(c) == c \in {"\n", "\r"}

\* ctx.splitlines(), from the open line cur on; "\r\n" counts here as two breaks with
\* an empty line between them, which the caller drops like every empty line
RECURSIVE splitlines(_, _)
splitlines(s, cur) ==
  IF s = <<>> THEN (IF cur = <<>> THEN <<>> ELSE <<cur>>)
  ELSE IF IsLineBreak(Head(s)) THEN <<cur>> \o splitlines(Tail(s), <<>>)
  ELSE splitlines(Tail(s), Append(cur, Head(s)))

\* line in kb_lines
Holds(kb_lines, line) == \E i \in DOMAIN kb_lines : kb_lines[i] = line

\* the inner loop: every line is trimmed, and appended when it is not empty and not
\* yet in kb_lines
RECURSIVE AppendNew(_, _)
AppendNew(lines, kb_lines) ==
  IF lines = <<>> THEN kb_lines
  ELSE LET line == Strip(Head(lines))
       IN  IF line # <<>> /\ ~Holds(kb_lines, line)
           THEN AppendNew(Tail(lines), Append(kb_lines, line))
           ELSE AppendNew(Tail(lines), kb_lines)

\* what one part adds to kb_lines: nothing when retrieve_kb_context(part) is None
AfterPart(ctx, kb_lines) ==
  IF ~ctx.some \/ ctx.text = <<>> THEN kb_lines
  ELSE AppendNew(splitlines(ctx.text, <<>>), kb_lines)

\* the outer loop over the parts, every part ranked with the default top_k and
\* min_score over the cached list
RECURSIVE MergeParts(_, _, _)
MergeParts(parts, entries, kb_lines) ==
  IF parts = <<>> THEN kb_lines
  ELSE MergeParts(Tail(parts), entries,
                  AfterPart(Rank(entries, Head(parts), DefaultTopK, DefaultMinScore).ctx,
                            kb_lines))

\* None when kb_lines is empty, else "\n".join(kb_lines)
Joined(kb_lines) == IF kb_lines = <<>> THEN None ELSE Some(JoinLines(kb_lines))

\* build_kb_context_for_message: the parts are queried one after the other, the first
\* one fills the cache when it is empty
BuildKbContextForMessage(text) ==
  LET entries == IF kbCache.valid THEN kbCache.entries ELSE load_kb_entries
  IN  /\ kbCache' = CacheAfterContext(text)
      /\ last' = [NoLast EXCEPT !.op = "build_kb_context_for_message", !.text = text,
                                !.entries = Stored(entries),
                                !.ctx = Joined(MergeParts(Chunks(text), entries, <<>>))]
      /\ UNCHANGED <<kbFile, issued, taskVars, ledgerVars, targetVars>>

\* ------------------------------------------------------------------ nutrition ledger
NoLedger == [exists |-> FALSE, lines |-> <<>>]

\* json.dumps(obj) + "\n": a line that json.loads parses back to obj
JsonLine(obj) == [parses |-> TRUE, obj |-> obj]

\* bool(v) of a JSON value
Truthy(v) == (v.t = "num" /\ v.n # 0) \/ (v.t = "str" /\ v.s # "")

\* a or b
Or(a, b) == IF Truthy(a) THEN a ELSE b

\* float(v) raises for None and for a string that is no number (no string of the
\* inputs is one)
FloatRaises(v) == v.t # "num"

\* a plausible slip: the greeting list without "hey"
rejected_short_list(obj) ==
  ~Truthy(obj.item) \/ (obj.item.t = "str" /\ obj.item.s \in {"", "hi", "hello"})

\* not obj.get("item") or obj.get("item", "") in ["", "hi", "hello", "hey"]
rejected(obj) ==
  ~Truthy(obj.item) \/ (obj.item.t = "str" /\ obj.item.s \in {"", "hi", "hello", "hey"})

\* the four additions of one parsed line, in the order of the code: an addition that
\* raises leaves the later ones of the line undone
LineTotals(obj) ==
  LET cal   == Or(Or(obj.total_kcal, obj.kcal), JNum(0))
      prot  == Or(obj.protein, JNum(0))
      carbs == Or(obj.carbs, JNum(0))
      fat   == Or(obj.fat, JNum(0))
      ok1   == ~FloatRaises(cal)
      ok2   == ok1 /\ ~FloatRaises(prot)
      ok3   == ok2 /\ ~FloatRaises(carbs)
      ok4   == ok3 /\ ~FloatRaises(fat)
  IN  [kcal    |-> IF ok1 THEN cal.n ELSE 0,
       protein |-> IF ok2 THEN prot.n ELSE 0,
       carbs   |-> IF ok3 THEN carbs.n ELSE 0,
       fat     |-> IF ok4 THEN fat.n ELSE 0]

NoTotals == [kcal |-> 0, protein |-> 0, carbs |-> 0, fat |-> 0, entries |-> <<>>]

\* a plausible slip: enumerate(f) counting from 0
first_index_zero == 1 - 1

\* enumerate(f, 1)
first_index == 1

\* a plausible slip: the entries numbered by their place in the listing
RECURSIVE AggregateNumberingListed(_, _, _)
AggregateNumberingListed(lines, i, acc) ==
  IF i > Len(lines) THEN acc
  ELSE IF ~lines[i].parses THEN AggregateNumberingListed(lines, i + 1, acc)
  ELSE LET t == LineTotals(lines[i].obj)
       IN  AggregateNumberingListed(lines, i + 1,
             [kcal    |-> acc.kcal + t.kcal,
              protein |-> acc.protein + t.protein,
              carbs   |-> acc.carbs + t.carbs,
              fat     |-> acc.fat + t.fat,
              entries |-> Append(acc.entries,
                                 [pos |-> Len(acc.entries) + 1, obj |-> lines[i].obj])])

\* the loop of aggregate_today over the lines from position i on
RECURSIVE AggregateFrom(_, _, _)
AggregateFrom(lines, i, acc) ==
  IF i > Len(lines) THEN acc
  ELSE IF ~lines[i].parses THEN AggregateFrom(lines, i + 1, acc)
  ELSE LET t == LineTotals(lines[i].obj)
       IN  AggregateFrom(lines, i + 1,
             [kcal    |-> acc.kcal + t.kcal,
              protein |-> acc.protein + t.protein,
              carbs   |-> acc.carbs + t.carbs,
              fat     |-> acc.fat + t.fat,
              entries |-> Append(acc.entries,
                                 [pos |-> i - 1 + first_index, obj |-> lines[i].obj])])

\* aggregate_today on the file of one scope
aggregate_today(file) ==
  IF file.exists THEN AggregateFrom(file.lines, 1, NoTotals) ELSE NoTotals

\* the records message_handler writes, in the order of llm_items
RECURSIVE Accepted(_)
Accepted(items) ==
  IF items = <<>> THEN <<>>
  ELSE IF rejected(Head(items)) THEN Accepted(Tail(items))
  ELSE <<Head(items)>> \o Accepted(Tail(items))

\* the number of lines in the ledgers of the users S
RECURSIVE CountLines(_)
CountLines(S) ==
  IF S = {} THEN 0
  ELSE LET u == CHOOSE x \in S : TRUE
       IN  Len(ledger[u][Today].lines) + CountLines(S \ {u})

\* a plausible slip: the handler going on to the append after the call raised
written_after_failure(failed, llm_items) == Accepted(llm_items)

\* the records message_handler appends: none when normalize_food_text raised (the
\* handler replies and returns), else the accepted ones
written(failed, llm_items) == IF failed THEN <<>> ELSE Accepted(llm_items)

\* message_handler; failed: normalize_food_text raised, and llm_items is then what the
\* collaborator had produced, which the handler never sees.  The file is opened for
\* append only when a record is accepted.  live_today_cache is written here and read
\* nowhere, and is left out.
MessageHandler(u, text, failed, llm_items) ==
  LET file == ledger[u][Today]
      kept == written(failed, llm_items)
  IN  /\ CountLines(Users) + Len(kept) <= MaxLines
      /\ userDirs' = userDirs \cup {u}
      /\ kbCache' = CacheAfterContext(text)
      /\ IF kept = <<>>
         THEN UNCHANGED <<ledger, appended>>
         ELSE /\ ledger' = [ledger EXCEPT ![u][Today] =
                   [exists |-> TRUE,
                    lines |-> file.lines \o [i \in DOMAIN kept |-> JsonLine(kept[i])]]]
              /\ appended' = [appended EXCEPT ![u][Today] =
                   IF file.lines = <<>> THEN [pure |-> TRUE, recs |-> kept]
                   ELSE IF @.pure THEN [pure |-> TRUE, recs |-> @.recs \o kept]
                   ELSE @]
      /\ last' = [NoLast EXCEPT !.op = "message_handler", !.user = u, !.ok = ~failed,
                                !.items = IF failed THEN <<>> ELSE llm_items]
      /\ UNCHANGED <<kbFile, issued, taskVars, targetVars>>

\* a plausible slip: the position used as a 0-based index
line_index_zero_based(entry_id) == entry_id

\* the index of del lines[entry_id - 1]
line_index(entry_id) == entry_id - 1

\* del lines[k] of a Python list: a negative k counts from the end
DelAt(lines, k) ==
  LET j == IF k < 0 THEN k + Len(lines) ELSE k
  IN  SubSeq(lines, 1, j) \o SubSeq(lines, j + 2, Len(lines))

\* a plausible slip: the range check written for 0-based positions
out_of_range_zero_based(entry_id, lines) == entry_id < 0 \/ entry_id > Len(lines)

\* entry_id < 1 or entry_id > len(lines)
out_of_range(entry_id, lines) == entry_id < 1 \/ entry_id > Len(lines)

DeleteUserEntryById(u, dt, entry_id) ==
  LET file == ledger[u][dt]
      ok   == file.exists /\ ~out_of_range(entry_id, file.lines)
  IN  /\ IF ok
         THEN /\ line_index(entry_id) < Len(file.lines)
              /\ ledger' = [ledger EXCEPT ![u][dt] =
                   [exists |-> TRUE, lines |-> DelAt(file.lines, line_index(entry_id))]]
              /\ appended' = [appended EXCEPT ![u][dt] = [pure |-> FALSE, recs |-> <<>>]]
         ELSE UNCHANGED <<ledger, appended>>
      /\ last' = [NoLast EXCEPT !.op = "delete_user_entry_by_id", !.user = u,
                                !.num = entry_id, !.ok = ok]
      /\ UNCHANGED <<kbVars, taskVars, userDirs, targetVars>>

\* a plausible slip: the file emptied instead of removed
unlink_truncates == [exists |-> TRUE, lines |-> <<>>]

\* jsonl_path.unlink()
unlink == NoLedger

ClearUserDay(u, dt) ==
  LET file == ledger[u][dt]
  IN  /\ IF file.exists
         THEN /\ ledger' = [ledger EXCEPT ![u][dt] = unlink]
              /\ appended' = [appended EXCEPT ![u][dt] = [pure |-> FALSE, recs |-> <<>>]]
         ELSE UNCHANGED <<ledger, appended>>
      /\ last' = [NoLast EXCEPT !.op = "clear_user_day", !.user = u, !.ok = file.exists]
      /\ UNCHANGED <<kbVars, taskVars, userDirs, targetVars>>

\* a call of aggregate_today, as summary_cmd makes it: entries is the listing of
\* (position, record) pairs it returns
AggregateToday(u, dt) ==
  /\ last' = [NoLast EXCEPT !.op = "aggregate_today", !.user = u,
                            !.entries = aggregate_today(ledger[u][dt]).entries]
  /\ UNCHANGED <<kbVars, taskVars, ledgerVars, targetVars>>

\* ------------------------------------------------------------------ nutrition ledger, interleaved
\* delete_user_entry_by_id run by tasks that are suspended between reading the day's
\* file and rewriting it; the append of message_handler is one write.

\* delete_user_entry_by_id up to its write: the exists test, readlines, the range
\* test, del lines[entry_id - 1]
DeleteUserEntryRead(t, u, dt, entry_id) ==
  LET file == ledger[u][dt]
      ok   == file.exists /\ ~out_of_range(entry_id, file.lines)
  IN  /\ task[t].pc = "idle"
      /\ started < MaxOps
      /\ started' = started + 1
      /\ IF ok
         THEN /\ task' = [task EXCEPT ![t] =
                   [Idle EXCEPT !.pc = "write", !.op = "delete_user_entry_by_id",
                                !.user = u, !.num = entry_id,
                                !.entries = DelAt(file.lines, line_index(entry_id))]]
              /\ UNCHANGED last
         ELSE /\ last' = [NoLast EXCEPT !.op = "delete_user_entry_by_id", !.user = u,
                                        !.num = entry_id, !.ok = FALSE]
              /\ UNCHANGED task
      /\ UNCHANGED <<kbVars, committed, ledgerVars, targetVars>>

\* open(jsonl_path, "w"), writelines(lines), return True
DeleteUserEntryWrite(t, dt) ==
  LET u == task[t].user
  IN  /\ task[t].pc = "write"
      /\ task[t].op = "delete_user_entry_by_id"
      /\ ledger' = [ledger EXCEPT ![u][dt] = [exists |-> TRUE, lines |-> task[t].entries]]
      /\ appended' = [appended EXCEPT ![u][dt] = [pure |-> FALSE, recs |-> <<>>]]
      /\ task' = [task EXCEPT ![t] = Idle]
      /\ last' = [NoLast EXCEPT !.op = "delete_user_entry_by_id", !.user = u,
                                !.num = task[t].num, !.ok = TRUE]
      /\ UNCHANGED <<kbVars, started, committed, userDirs, targetVars>>

\* ------------------------------------------------------------------ target tracker
\* a plausible slip: the stored mapping not read back before the update
load_user_targets_empty == <<>>

\* load_user_targets: {} when the file is missing
load_user_targets == IF targets.exists THEN targets.map ELSE <<>>

\* save_user_targets
save_user_targets(map) == [exists |-> TRUE, map |-> map]

\* targets[user_id] = target_cal on a dict
Assign(map, user_id, target_cal) ==
  [k \in DOMAIN map \cup {user_id} |-> IF k = user_id THEN target_cal ELSE map[k]]

SetUserTarget(user_id, target_cal) ==
  /\ targets' = save_user_targets(Assign(load_user_targets, user_id, target_cal))
  /\ lastSet' = [lastSet EXCEPT ![user_id] = {target_cal}]
  /\ last' = [NoLast EXCEPT !.op = "set_user_target", !.user = user_id,
                            !.num = target_cal]
  /\ UNCHANGED <<kbVars, taskVars, ledgerVars>>

\* targets.get(user_id): ok tells a value from None
GetUserTarget(user_id) ==
  LET map   == load_user_targets
      found == user_id \in DOMAIN map
  IN  /\ last' = [NoLast EXCEPT !.op = "get_user_target", !.user = user_id,
                                !.ok = found, !.ret = IF found THEN map[user_id] ELSE 0]
      /\ UNCHANGED <<kbVars, taskVars, ledgerVars, targetVars>>

\* str.isdigit() on ASCII text
isdigit(s) == s # <<>> /\ \A i \in DOMAIN s : s[i] \in Digits

\* s.replace('.', '')
RemoveDots(s) ==
  LET NotDot(c) == c # "." IN SelectSeq(s, NotDot)

\* text.split(".")[0]
RECURSIVE BeforeDot(_)
BeforeDot(s) ==
  IF s = <<>> THEN <<>>
  ELSE IF Head(s) = "." THEN <<>>
  ELSE <<Head(s)>> \o BeforeDot(Tail(s))

\* the number a string of decimal digits denotes, 0 for the empty string
RECURSIVE DigitsValue(_)
DigitsValue(s) ==
  IF s = <<>> THEN 0
  ELSE 10 * DigitsValue(SubSeq(s, 1, Len(s) - 1))
         + (CHOOSE d \in 0..9 : DigitChars[d + 1] = s[Len(s)])

\* float(s) raises ValueError, for s of digits and dots with a digit: two dots or more
float_raises(s) == Len(s) - Len(RemoveDots(s)) > 1

\* float(s) for s of digits and at most one dot, the digits behind the dot all 0
float_of(s) == DigitsValue(BeforeDot(s))

\* a plausible slip: zero let through
not_positive_strict(target_cal) == target_cal < 0

\* target_cal <= 0
not_positive(target_cal) == target_cal <= 0

\* settarget_cmd: the usage reply, the ValueError reply, the reply for a value that is
\* not positive, or set_user_target
SettargetCmd(user_id, args) ==
  LET usage  == args = <<>> \/ ~isdigit(RemoveDots(args[1]))
      raises == ~usage /\ float_raises(args[1])
      stores == ~usage /\ ~raises /\ ~not_positive(float_of(args[1]))
  IN  /\ IF stores
         THEN /\ targets' = save_user_targets(
                              Assign(load_user_targets, user_id, float_of(args[1])))
              /\ lastSet' = [lastSet EXCEPT ![user_id] = {float_of(args[1])}]
         ELSE UNCHANGED <<targets, lastSet>>
      /\ last' = [NoLast EXCEPT !.op = "settarget_cmd", !.user = user_id,
                                !.args = args, !.ok = stores]
      /\ UNCHANGED <<kbVars, taskVars, ledgerVars>>

Init ==
  /\ kbFile = [exists |-> FALSE, lines |-> <<>>]
  /\ kbCache = NoCache
  /\ issued = {}
  /\ task = [t \in Tasks |-> Idle]
  /\ started = 0
  /\ committed = FALSE
  /\ ledger = [u \in Users |-> [d \in Dates |-> NoLedger]]
  /\ userDirs = {}
  /\ appended = [u \in Users |-> [d \in Dates |-> [pure |-> TRUE, recs |-> <<>>]]]
  /\ targets = [exists |-> FALSE, map |-> <<>>]
  /\ lastSet = [u \in Users |-> {}]
  /\ last = NoLast

NextKB ==
  \/ \E text \in NoteTexts : AddKbEntry(text)
  \/ \E entry_id \in DeleteIds : DeleteKbEntry(entry_id)
  \/ \E query \in Queries : RetrieveKbContext(query, DefaultTopK, DefaultMinScore)

SpecKB == Init /\ [][NextKB]_vars

\* the ranking specification: notes are added, and queries ranked with every top_k
\* and min_score
NextRank ==
  \/ \E text \in RankTexts : AddKbEntry(text)
  \/ \E query \in RankQueries, top_k \in TopKs, min_score \in MinScores :
       RetrieveKbContext(query, top_k, min_score)

SpecRank == Init /\ [][NextRank]_vars

\* the context specification: notes are added and messages assembled
NextContext ==
  \/ \E text \in ContextTexts : AddKbEntry(text)
  \/ \E text \in ContextMessages : BuildKbContextForMessage(text)

SpecContext == Init /\ [][NextContext]_vars

NextKBTasks ==
  \/ \E t \in Tasks, text \in TaskTexts : AddClear(t, text)
  \/ \E t \in Tasks : AddLoad(t)
  \/ \E t \in Tasks : AddSave(t)
  \/ \E t \in Tasks, entry_id \in TaskIds : DeleteClear(t, entry_id)
  \/ \E t \in Tasks : DeleteLoad(t)
  \/ \E t \in Tasks : DeleteSave(t)
  \/ \E t \in Tasks, query \in TaskQueries : RetrieveCall(t, query)
  \/ \E t \in Tasks : RetrieveLoad(t)

SpecKBTasks == Init /\ [][NextKBTasks]_vars

NextLedger ==
  \/ \E u \in Users, text \in Messages, llm_items \in Batches :
       MessageHandler(u, text, FALSE, llm_items)
  \/ \E u \in Users, text \in Messages, llm_items \in LostBatches :
       MessageHandler(u, text, TRUE, llm_items)
  \/ \E u \in Users, dt \in Dates, entry_id \in Positions :
       DeleteUserEntryById(u, dt, entry_id)
  \/ \E u \in Users, dt \in Dates : ClearUserDay(u, dt)

SpecLedger == Init /\ [][NextLedger]_vars

\* the positions specification starts from a day file of u1 that may hold malformed
\* lines
InitPositions ==
  /\ kbFile = [exists |-> FALSE, lines |-> <<>>]
  /\ kbCache = NoCache
  /\ issued = {}
  /\ task = [t \in Tasks |-> Idle]
  /\ started = 0
  /\ committed = FALSE
  /\ \E lines \in LedgerFiles :
       ledger = [u \in Users |-> [d \in Dates |->
                  IF u = "u1" THEN [exists |-> TRUE, lines |-> lines] ELSE NoLedger]]
  /\ userDirs = {"u1"}
  /\ appended = [u \in Users |-> [d \in Dates |->
                   [pure |-> u # "u1", recs |-> <<>>]]]
  /\ targets = [exists |-> FALSE, map |-> <<>>]
  /\ lastSet = [u \in Users |-> {}]
  /\ last = NoLast

\* a listing, and a delete that immediately follows a listing of the same user
NextPositions ==
  \/ \E u \in Users, dt \in Dates : AggregateToday(u, dt)
  \/ \E u \in Users, dt \in Dates, entry_id \in Positions :
       /\ last.op = "aggregate_today"
       /\ last.user = u
       /\ DeleteUserEntryById(u, dt, entry_id)

SpecPositions == InitPositions /\ [][NextPositions]_vars

\* the ledger fed by replies of the collaborator that hold a field that is no number
NextLooseLedger ==
  \E u \in Users, text \in Messages, llm_items \in LooseBatches :
    MessageHandler(u, text, FALSE, llm_items)

SpecLooseLedger == Init /\ [][NextLooseLedger]_vars

\* appends and deletes on the day's ledgers, the deletes interleaved
NextLedgerTasks ==
  \/ \E u \in TaskUsers, text \in TaskMessages, llm_items \in TaskBatches :
       MessageHandler(u, text, FALSE, llm_items)
  \/ \E t \in Tasks, u \in TaskUsers, dt \in Dates, entry_id \in Positions :
       DeleteUserEntryRead(t, u, dt, entry_id)
  \/ \E t \in Tasks, dt \in Dates : DeleteUserEntryWrite(t, dt)

SpecLedgerTasks == Init /\ [][NextLedgerTasks]_vars

NextTargets ==
  \/ \E user_id \in Users, target_cal \in TargetValues : SetUserTarget(user_id, target_cal)
  \/ \E user_id \in Users : GetUserTarget(user_id)
  \/ \E user_id \in Users, args \in CmdArgs : SettargetCmd(user_id, args)

SpecTargets == Init /\ [][NextTargets]_vars

\* ------------------------------------------------------------------ claims: knowledge store
\* the entries of the durable knowledge store
KbLines == IF kbFile.exists THEN kbFile.lines ELSE <<>>

\* t is s without its leading and trailing whitespace
IsTrimOf(t, s) ==
  /\ t = <<>> \/ (~IsSpace(t[1]) /\ ~IsSpace(t[Len(t)]))
  /\ \E i \in 0..Len(s) :
       /\ i + Len(t) <= Len(s)
       /\ \A k \in 1..Len(t) : s[i + k] = t[k]
       /\ \A k \in 1..Len(s) : (k <= i \/ k > i + Len(t)) => IsSpace(s[k])

\* C1: every id add_kb_entry returns is strictly greater than every id an earlier
\* add_kb_entry returned, also when entries were deleted in between.
C1_IdsNeverReused ==
  [][last'.op = "add_kb_entry" => \A i \in issued : last'.ret > i]_vars

\* C2: add_kb_entry returns max(existing ids) + 1, or 1 on an empty store, and the
\* store is then the previous entries, unchanged and in order, followed by the one
\* new entry {id: returned id, text: trimmed text}.
C2_AddAppendsNextId ==
  [][last'.op = "add_kb_entry" =>
       LET old == KbLines
           ids == {old[i].id : i \in DOMAIN old}
           new == kbFile'.lines
       IN  /\ ids = {} => last'.ret = 1
           /\ ids # {} => (last'.ret - 1 \in ids /\ \A i \in ids : i < last'.ret)
           /\ kbFile'.exists
           /\ Len(new) = Len(old) + 1
           /\ \A i \in DOMAIN old : new[i] = old[i]
           /\ new[Len(new)].id = last'.ret
           /\ IsTrimOf(new[Len(new)].text, last'.text)
           /\ DOMAIN new[Len(new)] = {"id", "text"}]_vars

\* an add after a delete: the store held ids 1 and 3, the add trimmed its text
C2_Witness ==
  /\ last.op = "add_kb_entry"
  /\ last.ret = 3
  /\ Len(KbLines) = 2
  /\ KbLines[1].id = 2
  /\ KbLines[2].text # last.text

\* C3: delete_kb_entry returns true exactly when the store held an entry with the
\* id; on true that entry is gone and the others remain in order; on false the
\* durable store is unchanged.
C3_DeleteById ==
  [][last'.op = "delete_kb_entry" =>
       LET old == KbLines
           had == \E i \in DOMAIN old : old[i].id = last'.num
       IN  /\ last'.ok = had
           /\ ~had => kbFile' = kbFile
           /\ had => \E p \in DOMAIN old :
                       /\ old[p].id = last'.num
                       /\ kbFile'.exists
                       /\ kbFile'.lines = SubSeq(old, 1, p - 1) \o SubSeq(old, p + 1, Len(old))
                       /\ \A i \in DOMAIN kbFile'.lines : kbFile'.lines[i].id # last'.num]_vars

\* the entry with id 2 was deleted from between the entries 1 and 3
C3_Witness ==
  /\ last.op = "delete_kb_entry"
  /\ last.ok
  /\ last.num = 2
  /\ Len(KbLines) = 2
  /\ KbLines[1].id = 1
  /\ KbLines[2].id = 3

\* no add_kb_entry or delete_kb_entry is between its cache_clear and its return
NoMutationInFlight ==
  \A t \in Tasks : task[t].op \notin {"add_kb_entry", "delete_kb_entry"}

\* C4: the cache is invalidated after the durable write, so once a mutation has
\* reported success no later retrieve_kb_context ranks over a list that differs
\* from the durable store (a reader interleaved at the storage boundaries).
C4_NoStaleRetrieve ==
  (committed /\ last.op = "retrieve_kb_context" /\ NoMutationInFlight)
    => last.entries = KbLines

\* task t returns from the mutation op in this step
Returns(t, op) == task[t].op = op /\ task[t].pc = "write" /\ task'[t].pc = "idle"

\* C17: mutations of the knowledge store are serialized: a mutation interleaved
\* with another at the reads and writes of the file acts on the store as it is when
\* it writes, so an add keeps every stored entry and returns an id no stored entry
\* carries, and a delete removes its entry and nothing else.
C17_MutationsSerialized ==
  [][\A t \in Tasks :
       /\ Returns(t, "add_kb_entry") =>
            /\ \A i \in DOMAIN KbLines : \E j \in DOMAIN kbFile'.lines :
                                            kbFile'.lines[j] = KbLines[i]
            /\ \A i \in DOMAIN KbLines : KbLines[i].id # last'.ret
       /\ Returns(t, "delete_kb_entry") =>
            kbFile'.lines = without_id(KbLines, last'.num)]_vars

\* C20: when add_kb_entry, delete_kb_entry and retrieve_kb_context run one at a
\* time, a snapshot held by the cache has the ids and texts of the durable store in
\* the same order, and every retrieve_kb_context ranks over exactly the stored
\* entries.
C20_SequentialCacheCoherence ==
  /\ kbCache.valid => Stored(kbCache.entries) = KbLines
  /\ last.op = "retrieve_kb_context" => last.entries = KbLines

\* a query served from storage after adds and a delete: the store and the refilled
\* cache hold the entries 1 and 3
C20_Witness ==
  /\ last.op = "retrieve_kb_context"
  /\ ~last.hit
  /\ issued = {1, 2, 3}
  /\ kbCache.valid
  /\ Len(kbCache.entries) = 2
  /\ kbCache.entries[1].id = 1
  /\ kbCache.entries[2].id = 3

\* C21: derived fields are never persisted: after any sequence of
\* retrieve_kb_context, add_kb_entry and delete_kb_entry calls every entry in durable
\* storage has exactly the fields id and text, although retrieval writes name and
\* name_norm into the cached entries.
C21_DerivedFieldsNotPersisted ==
  \A i \in DOMAIN KbLines : DOMAIN KbLines[i] = {"id", "text"}

\* a query served from the cache after adds and a delete: the cached entries carry
\* name and name_norm, the two stored entries do not
C21_Witness ==
  /\ last.op = "retrieve_kb_context"
  /\ last.hit
  /\ issued = {1, 2, 3}
  /\ Len(KbLines) = 2
  /\ Len(kbCache.entries) = 2
  /\ \A i \in DOMAIN kbCache.entries :
       DOMAIN kbCache.entries[i] = {"id", "text", "name", "name_norm"}
  /\ \A i \in DOMAIN KbLines : "name" \notin DOMAIN KbLines[i]

\* ------------------------------------------------------------------ claims: ranker
\* the lines of a context string
RECURSIVE SplitLines(_, _)
SplitLines(text, cur) ==
  IF text = <<>> THEN <<cur>>
  ELSE IF Head(text) = "\n" THEN <<cur>> \o SplitLines(Tail(text), <<>>)
  ELSE SplitLines(Tail(text), Append(cur, Head(text)))

\* the note lines of the context the last retrieve_kb_context returned
ReturnedLines == IF last.ctx.some THEN SplitLines(last.ctx.text, <<>>) ELSE <<>>

\* the entries the last retrieve_kb_context ranked over, with their names
Ranked == build_kb_index(last.entries)

\* the places of the entries that are scored
Candidates == {i \in DOMAIN Ranked : Ranked[i].name_norm # <<>>}

QueryNorm == normalize_text(last.text)

ScoreOf(i) == score(QueryNorm, Ranked[i].name_norm)

\* candidate j is ranked ahead of candidate i: a higher score, or the same score and a
\* longer raw name, or both the same and an earlier place in the store
RankedAhead(j, i) ==
  \/ ScoreOf(j) > ScoreOf(i)
  \/ /\ ScoreOf(j) = ScoreOf(i)
     /\ \/ Len(Ranked[j].name) > Len(Ranked[i].name)
        \/ Len(Ranked[j].name) = Len(Ranked[i].name) /\ j < i

Ahead(i) == Cardinality({j \in Candidates : RankedAhead(j, i)})

\* the entries whose normalized name is the normalized query
ExactNames == {i \in Candidates : Ranked[i].name_norm = QueryNorm}

\* C11 as stated: an entry whose normalized name equals the normalized query gets the
\* score 100 and its note line is in the returned context, whatever min_score is.
C11_ExactNameScore100Retained ==
  last.op = "retrieve_kb_context" =>
    \A i \in ExactNames :
      /\ ScoreOf(i) = 100
      /\ \E k \in DOMAIN ReturnedLines : ReturnedLines[k] = NoteLine(Ranked[i])

\* C11 amended: an entry whose normalized name equals the normalized query gets the
\* score 100 + min(5 * number of distinct query words, 15), which no other entry
\* exceeds; its note line is in the returned context whenever min_score is at most
\* that score, fewer than top_k candidates are ranked ahead of it, and the collapse
\* (at most 2 query words, top_k above 1, another entry with the same score) does not
\* apply or the entry is ranked first.
C11_ExactNameBestScore ==
  last.op = "retrieve_kb_context" =>
    \A i \in ExactNames :
      LET tied == \E j \in Candidates : j # i /\ ScoreOf(j) = ScoreOf(i)
          collapses == Len(Words(QueryNorm)) <= 2 /\ last.top_k > 1 /\ tied
      IN  /\ ScoreOf(i) = 100 + min(5 * Cardinality(Range(Words(QueryNorm))), 15)
          /\ \A j \in Candidates : ScoreOf(j) <= ScoreOf(i)
          /\ (/\ last.min_score <= ScoreOf(i)
              /\ Ahead(i) < last.top_k
              /\ ~collapses \/ Ahead(i) = 0)
               => \E k \in DOMAIN ReturnedLines : ReturnedLines[k] = NoteLine(Ranked[i])

\* "rice and apples" on a store that holds "Rice and Apples!, 150" twice: both score
\* 115, the second is ranked behind the first and both note lines are returned
C11_Witness ==
  /\ last.op = "retrieve_kb_context"
  /\ Len(Words(QueryNorm)) = 3
  /\ Cardinality(ExactNames) = 2
  /\ \E i \in ExactNames : Ahead(i) = 1 /\ ScoreOf(i) = 115
  /\ Len(ReturnedLines) >= 2

\* the raw name of an entry: its text up to the first comma, trimmed
RawName(entry) == Strip(BeforeComma(entry.text))

\* the score of one of the entries the last retrieve_kb_context selected
SelectedScore(k) == score(QueryNorm, normalize_text(RawName(last.selected[k])))

\* the selected entries that have the highest score
TiedAtTop ==
  {k \in DOMAIN last.selected :
     \A m \in DOMAIN last.selected : SelectedScore(m) <= SelectedScore(k)}

\* C12: when the normalized query has at most 2 words, at least two retained
\* candidates tie at the top score and that score is at least 90, exactly one note
\* line is returned, that of a tied entry with the longest raw name; otherwise the
\* note lines of all retained candidates are returned, in their order.
C12_SpecificityCollapse ==
  last.op = "retrieve_kb_context" =>
    LET sel   == last.selected
        fires == /\ Len(Words(QueryNorm)) <= 2
                 /\ Cardinality(TiedAtTop) >= 2
                 /\ \A k \in TiedAtTop : SelectedScore(k) >= 90
    IN  /\ fires =>
             /\ Len(ReturnedLines) = 1
             /\ \E k \in TiedAtTop :
                  /\ ReturnedLines[1] = NoteLine(sel[k])
                  /\ \A m \in TiedAtTop : Len(RawName(sel[m])) <= Len(RawName(sel[k]))
        /\ ~fires => ReturnedLines = [k \in DOMAIN sel |-> NoteLine(sel[k])]

\* "Apples" on the store apples, rice apples, Rice and Apples!: the three tie at 105
\* and only the note with the longest name, #3, is returned
C12_Witness ==
  /\ last.op = "retrieve_kb_context"
  /\ Len(Words(QueryNorm)) = 1
  /\ Len(last.selected) = 3
  /\ Cardinality(TiedAtTop) = 3
  /\ last.selected[1].id = 3
  /\ ReturnedLines = <<NoteLine(last.selected[1])>>
  /\ Len(RawName(last.selected[1])) > Len(RawName(last.entries[1]))

\* the highest score of a candidate
BestScore == CHOOSE b \in {ScoreOf(i) : i \in Candidates} :
               \A i \in Candidates : ScoreOf(i) <= b

\* max(min_score, floor(best_score * 0.7)), the floor taken of the exact product
FloorCutoff == max(last.min_score, (7 * BestScore) \div 10)

\* the candidates that reach the cutoff
Reaching == {i \in Candidates : ScoreOf(i) >= FloorCutoff}

\* C19: with cutoff = max(min_score, floor(best_score * 0.7)), the entries rendered
\* before the collapse are exactly the first top_k candidates with score >= cutoff
\* in descending order of (score, length of raw name); nothing is returned when the
\* store is empty, the normalized query is empty, no entry has a non-empty
\* normalized name, or no candidate reaches the cutoff.
C19_SelectionByFloorCutoff ==
  last.op = "retrieve_kb_context" =>
    IF last.entries = <<>> \/ QueryNorm = <<>> \/ Candidates = {} \/ Reaching = {}
    THEN ~last.ctx.some
    ELSE /\ Len(last.selected) = min(last.top_k, Cardinality(Reaching))
         /\ \A i \in Reaching :
              LET before == Cardinality({j \in Reaching : RankedAhead(j, i)})
              IN  before < last.top_k => last.selected[before + 1] = last.entries[i]

\* C16: with a fixed knowledge base, retrieve_kb_context calls with the same query,
\* top_k and min_score return the same string, or nothing every time, whatever was
\* queried in between and whether the list came from the cache or from storage: what
\* a call returns is the ranking of the stored entries for its arguments.
C16_RankerDeterminism ==
  last.op = "retrieve_kb_context" =>
    last.ctx = Rank(KbLines, last.text, last.top_k, last.min_score).ctx

\* a call served from the cache returned the notes #2 and #1 of a store of three
C16_Witness ==
  /\ last.op = "retrieve_kb_context"
  /\ last.hit
  /\ Len(KbLines) = 3
  /\ Len(ReturnedLines) = 2
  /\ ReturnedLines[1] = NoteLine(KbLines[2])
  /\ ReturnedLines[2] = NoteLine(KbLines[1])

\* ------------------------------------------------------------------ claims: context assembler
\* the note lines of the result for one chunk, in rank order: those of the selected
\* entries, or of the first one alone when the ranker collapsed its selection
ChunkNotes(chunk) ==
  LET ranked == Rank(last.entries, chunk, DefaultTopK, DefaultMinScore)
      notes  == [i \in DOMAIN ranked.selected |-> NoteLine(ranked.selected[i])]
  IN  IF ~ranked.ctx.some THEN <<>>
      ELSE IF ranked.ctx.text = JoinLines(notes) THEN notes
      ELSE <<notes[1]>>

\* the note lines of all chunk results, in chunk order
RECURSIVE NotesOf(_)
NotesOf(chunks) ==
  IF chunks = <<>> THEN <<>> ELSE ChunkNotes(Head(chunks)) \o NotesOf(Tail(chunks))

\* a sequence without the repeats of its elements, in order of first appearance
FirstSeen(lines) ==
  LET IsFirst(i) == \A j \in 1..(i - 1) : lines[j] # lines[i]
      F[i \in 0..Len(lines)] ==
        IF i = 0 THEN <<>>
        ELSE IF IsFirst(i) THEN Append(F[i - 1], lines[i]) ELSE F[i - 1]
  IN  F[Len(lines)]

\* C22: build_kb_context_for_message splits the message on whole-word "and" (any
\* case) and on commas, queries every non-empty trimmed chunk, and returns the note
\* lines of all chunk results, no line twice, in order of first appearance; it
\* returns nothing exactly when no chunk produced a match.
C22_ContextMerge ==
  last.op = "build_kb_context_for_message" =>
    LET expected == FirstSeen(NotesOf(Chunks(last.text)))
    IN  /\ last.ctx.some <=> expected # <<>>
        /\ last.ctx.some => last.ctx.text = JoinLines(expected)

\* ------------------------------------------------------------------ claims: nutrition ledger
\* the value of a numeric field of a record, a field that is absent or null counting 0
FieldValue(v) == IF v.t = "num" THEN v.n ELSE 0

\* the calories of a record: its total_kcal, or its kcal when it has no total_kcal
KcalField(obj) == IF obj.total_kcal.t = "num" THEN obj.total_kcal ELSE obj.kcal

RECURSIVE SumSeq(_)
SumSeq(nums) == IF nums = <<>> THEN 0 ELSE Head(nums) + SumSeq(Tail(nums))

SumOver(recs, Field(_)) == SumSeq([i \in DOMAIN recs |-> FieldValue(Field(recs[i]))])

ProteinField(obj) == obj.protein

CarbsField(obj) == obj.carbs

FatField(obj) == obj.fat

\* a record with a usable item: a string that is neither empty nor a reserved token
IsFood(obj) == obj.item.t = "str" /\ obj.item.s \notin {"", "hi", "hello", "hey"}

\* C5: after n accepted records were appended to an empty scope, aggregate_today
\* returns n lines at the positions 1..n in append order, and each of the four
\* totals is the sum of that field over the appended records.
C5_AppendAggregateRoundTrip ==
  \A u \in Users :
    appended[u][Today].pure =>
      LET recs == appended[u][Today].recs
          agg  == aggregate_today(ledger[u][Today])
      IN  /\ Len(agg.entries) = Len(recs)
          /\ \A i \in DOMAIN recs : agg.entries[i] = [pos |-> i, obj |-> recs[i]]
          /\ agg.kcal = SumOver(recs, KcalField)
          /\ agg.protein = SumOver(recs, ProteinField)
          /\ agg.carbs = SumOver(recs, CarbsField)
          /\ agg.fat = SumOver(recs, FatField)

\* three records appended by two messages to the empty scope of u1
C5_Witness ==
  /\ last.op = "message_handler"
  /\ last.user = "u1"
  /\ appended["u1"][Today].pure
  /\ appended["u1"][Today].recs = <<Egg, Rice, Egg>>
  /\ aggregate_today(ledger["u1"][Today]).kcal = 520

\* C6: when delete_user_entry_by_id(user, date, p) returns true on a ledger of n
\* lines, the ledger then has n-1 lines, the lines before p keep their positions and
\* every line after p moves down by one.
C6_DeleteShiftsPositions ==
  [][(last'.op = "delete_user_entry_by_id" /\ last'.ok) =>
       LET old == ledger[last'.user][Today].lines
           new == ledger'[last'.user][Today].lines
           p   == last'.num
       IN  /\ Len(new) = Len(old) - 1
           /\ \A q \in 1..Len(old) : q < p => new[q] = old[q]
           /\ \A q \in 1..Len(old) : q > p => new[q - 1] = old[q]]_vars

\* position 2 of three lines was deleted: what was at position 3 is now at 2
C6_Witness ==
  /\ last.op = "delete_user_entry_by_id"
  /\ last.ok
  /\ last.num = 2
  /\ ledger[last.user][Today].lines = <<JsonLine(Egg), JsonLine(Rice)>>

\* C7: delete_user_entry_by_id returns false and leaves the durable ledger unchanged
\* when the position is below 1, above the line count, or the scope has no ledger.
C7_DeleteOutOfRange ==
  [][last'.op = "delete_user_entry_by_id" =>
       LET file == ledger[last'.user][Today]
           p    == last'.num
       IN  (p < 1 \/ p > Len(file.lines) \/ ~file.exists)
             => (~last'.ok /\ ledger' = ledger)]_vars

\* position 0 was refused on a ledger that holds lines
C7_Witness ==
  /\ last.op = "delete_user_entry_by_id"
  /\ ~last.ok
  /\ last.num = 0
  /\ Len(ledger[last.user][Today].lines) = 2

\* C8: a record whose item is missing, empty or a reserved token is never persisted:
\* a message whose records are all of that kind leaves the aggregate of the scope
\* unchanged, and of a mixed batch only the other records are appended, in order.
C8_ReservedTokensRejected ==
  [][last'.op = "message_handler" =>
       LET old  == ledger[last'.user][Today]
           new  == ledger'[last'.user][Today]
           kept == SelectSeq(last'.items, IsFood)
       IN  /\ new.lines = old.lines \o [i \in DOMAIN kept |-> JsonLine(kept[i])]
           /\ kept = <<>> => aggregate_today(new) = aggregate_today(old)
           /\ \A i \in DOMAIN new.lines : IsFood(new.lines[i].obj)
           /\ \A u \in Users : u # last'.user => ledger'[u] = ledger[u]]_vars

\* the batch hi, egg, hey, rice was handled and egg and rice were appended
C8_Witness ==
  /\ last.op = "message_handler"
  /\ Len(last.items) = 4
  /\ ledger[last.user][Today].lines = <<JsonLine(Rice), JsonLine(Egg), JsonLine(Rice)>>

\* C9: clear_user_day returns true exactly when a ledger existed for the scope; after
\* it the aggregate of the scope has zero totals and no lines, and a clear_user_day
\* repeated at once returns false (no ledger is left for it to find).
C9_ClearDay ==
  [][last'.op = "clear_user_day" =>
       LET u == last'.user
       IN  /\ last'.ok = ledger[u][Today].exists
           /\ aggregate_today(ledger'[u][Today]) = NoTotals
           /\ ~ledger'[u][Today].exists
           /\ (last.op = "clear_user_day" /\ last.user = u) => ~last'.ok]_vars

\* a ledger with lines was cleared
C9_Witness ==
  /\ last.op = "clear_user_day"
  /\ last.ok
  /\ ~ledger[last.user][Today].exists
  /\ userDirs = Users

\* C13: when the LLM call raises, message_handler changes the durable ledger of no
\* (user, date) scope: nothing is appended, not even in part.
C13_FailedCallNoLedgerMutation ==
  [][(last'.op = "message_handler" /\ ~last'.ok) => ledger' = ledger]_vars

\* the call raised for a user whose ledger holds two lines, which are still there
C13_Witness ==
  /\ last.op = "message_handler"
  /\ ~last.ok
  /\ ledger[last.user][Today].lines = <<JsonLine(Egg), JsonLine(Rice)>>
  /\ last.user \in userDirs

\* C15: aggregate_today counts a missing, null or non-numeric value of a numeric field
\* as zero for that field only: every parseable line is listed with its position, and
\* each total is the sum of that field over the lines, a value that is no number
\* counting 0.
C15_NonNumericFieldCountsZero ==
  \A u \in Users :
    LET lines == ledger[u][Today].lines
        objs  == [i \in DOMAIN lines |-> lines[i].obj]
        agg   == aggregate_today(ledger[u][Today])
    IN  /\ agg.entries = [i \in DOMAIN lines |-> [pos |-> i, obj |-> objs[i]]]
        /\ agg.kcal = SumOver(objs, KcalField)
        /\ agg.protein = SumOver(objs, ProteinField)
        /\ agg.carbs = SumOver(objs, CarbsField)
        /\ agg.fat = SumOver(objs, FatField)

\* C18: access to one (user, date) scope is serialized: a delete_user_entry_by_id
\* interleaved with appends acts on the file as it is when it rewrites it, so what
\* it leaves is the current file without the one line, and no appended record is
\* lost.
C18_ScopeSerialized ==
  [][\A t \in Tasks :
       Returns(t, "delete_user_entry_by_id") =>
         LET u == task[t].user
         IN  ledger'[u][Today].lines =
               DelAt(ledger[u][Today].lines, line_index(task[t].num))]_vars

\* C23: positions agree between aggregate and delete: for every (position, record)
\* pair aggregate_today reports, an immediately following delete_user_entry_by_id with
\* that position returns true and removes the line of exactly that record and no
\* other, also when the ledger holds malformed lines.
C23_PositionsAgree ==
  [][(/\ last.op = "aggregate_today"
      /\ last'.op = "delete_user_entry_by_id"
      /\ last'.user = last.user) =>
       \A k \in DOMAIN last.entries :
         last.entries[k].pos = last'.num =>
           LET old == ledger[last.user][Today].lines
               new == ledger'[last.user][Today].lines
               p   == last'.num
           IN  /\ last'.ok
               /\ p \in DOMAIN old
               /\ old[p] = [parses |-> TRUE, obj |-> last.entries[k].obj]
               /\ new = SubSeq(old, 1, p - 1) \o SubSeq(old, p + 1, Len(old))]_vars

\* the file held a malformed line, egg and rice; rice was listed at position 3 and
\* the delete of position 3 left the malformed line and egg
C23_Witness ==
  /\ last.op = "delete_user_entry_by_id"
  /\ last.ok
  /\ last.num = 3
  /\ ledger["u1"][Today].lines = <<MalformedLine, [parses |-> TRUE, obj |-> Egg]>>

\* ------------------------------------------------------------------ claims: target tracker
\* the target user_targets.json holds for a user, as a set
StoredTarget(u) ==
  IF targets.exists /\ u \in DOMAIN targets.map THEN {targets.map[u]} ELSE {}

\* C10: get_user_target(u) returns the value of the latest set_user_target(u, v), or
\* nothing when there was none, and a set_user_target for one user leaves the stored
\* target of every other user as it was.
C10_TargetLastWriteWins ==
  /\ \A u \in Users : StoredTarget(u) = lastSet[u]
  /\ last.op = "get_user_target" =>
       /\ last.ok = (lastSet[last.user] # {})
       /\ last.ok => lastSet[last.user] = {last.ret}

\* u1 reads 1800 back while u2 holds a target of its own
C10_Witness ==
  /\ last.op = "get_user_target"
  /\ last.user = "u1"
  /\ last.ok
  /\ last.ret = 1800
  /\ lastSet["u2"] = {2000}

\* s is a decimal numeral: digits with at most one dot among them
IsNumeral(s) ==
  /\ \E i \in DOMAIN s : s[i] \in Digits
  /\ \A i \in DOMAIN s : s[i] \in Digits \cup {"."}
  /\ Cardinality({i \in DOMAIN s : s[i] = "."}) <= 1

\* the argument of a settarget command is missing, not a number, or not above 0
InvalidTarget(args) ==
  \/ args = <<>>
  \/ ~IsNumeral(args[1])
  \/ \A i \in DOMAIN args[1] : args[1][i] \in {"0", "."}

\* C14: a settarget command whose argument is missing, not a number, or not greater
\* than 0 leaves the target mapping unchanged, and after every settarget command
\* every stored target is greater than 0.
C14_TargetValidatedBeforeStore ==
  [][last'.op = "settarget_cmd" =>
       /\ InvalidTarget(last'.args) => targets' = targets
       /\ \A u \in DOMAIN targets'.map : targets'.map[u] > 0]_vars

\* "1.2.3" was refused for a user whose stored target 2000 came from a command
C14_Witness ==
  /\ last.op = "settarget_cmd"
  /\ ~last.ok
  /\ last.args = << <<"1",".","2",".","3">> >>
  /\ StoredTarget(last.user) = {2000}
  /\ \A u \in Users : StoredTarget(u) \subseteq {2000}

====
